---------------------------- MODULE Spec2Model ----------------------------
(***************************************************************************)
(* Model of the JVC projector remote: the session of                       *)
(* jvc_projector_remote/jvcprojector.py (connect with retries, the         *)
(* PJ_OK / PJREQ / PJACK handshake, send_command, command, commands,       *)
(* verify_connection) driving the command codec of                         *)
(* jvc_projector/jvccommands.py (Command.write, Command.read and the       *)
(* Commands catalog).                                                      *)
(*                                                                         *)
(* Byte strings and text strings are sequences of character codes.  A      *)
(* public call is one action: it runs the whole call against the device    *)
(* behaviour chosen for it (a script of connect, receive and send          *)
(* outcomes) and leaves the trace of its socket operations in log.         *)
(* Return hands the result to the caller and clears the trace.             *)
(*                                                                         *)
(* Spec is the session with its codec.  SpecCodec is the codec alone:      *)
(* write and read of every group of the catalog on a connected socket.     *)
(***************************************************************************)
EXTENDS Integers, Sequences, FiniteSets, TLC

VARIABLES
    pc,           \* "new" | "idle" | "returned" | "config_error" | "codec"
    password,     \* self.password
    max_retries,  \* self.max_retries
    jvc_sock,     \* self.jvc_sock: None or Socket
    sock_open,    \* the socket object jvc_sock refers to is not closed
    sock_hs,      \* handshake progress of that socket's connection, 0..3
    leaked,       \* open sockets the session no longer refers to
    log,          \* socket operations and raises of the current call
    last,         \* the current call: operation, arguments, outcome
    last_command_time  \* self.last_command_time: Startup or Stamped

vars ==
    <<pc, password, max_retries, jvc_sock, sock_open, sock_hs, leaked, log,
      last, last_command_time>>

(***************************************************************************)
(* Bounds of the model                                                     *)
(***************************************************************************)
\* passwords tried at construction have 0..MaxPwLen characters
MaxPwLen == 11
\* max_retries arguments tried at construction are 0..MaxRetriesArg
MaxRetriesArg == 2
\* batches given to commands() have 0..MaxBatch command strings
MaxBatch == 2

(***************************************************************************)
(* Byte strings                                                            *)
(***************************************************************************)
None == "None"
Socket == "Socket"

NL == <<10>>                        \* b"\n"
HYPHEN == 45                        \* "-"
NUL == 0                            \* b"\x00"

\* bytes.startswith
startswith(b, prefix) ==
    /\ Len(b) >= Len(prefix)
    /\ SubSeq(b, 1, Len(prefix)) = prefix

\* b[i:j] with 0 <= i, 0 <= j (python slice, 0-based, end exclusive)
slice(b, i, j) ==
    LET hi == IF j > Len(b) THEN Len(b) ELSE j
    IN  IF i >= hi THEN <<>> ELSE SubSeq(b, i + 1, hi)

\* b[i:-1]
slice_to_last(b, i) == slice(b, i, IF Len(b) = 0 THEN 0 ELSE Len(b) - 1)

\* bytes.ljust(width, fill)
RECURSIVE ljust(_, _, _)
ljust(b, width, fill) ==
    IF Len(b) >= width THEN b ELSE ljust(Append(b, fill), width, fill)

\* sock.recv(n) of the bytes the device sent
recvn(b, n) == slice(b, 0, n)

\* str.split(sep) for a one-character separator
RECURSIVE split(_, _)
split(s, sep) ==
    IF \A i \in 1..Len(s) : s[i] # sep
    THEN <<s>>
    ELSE LET k == CHOOSE i \in 1..Len(s) :
                    /\ s[i] = sep
                    /\ \A j \in 1..(i - 1) : s[j] # sep
         IN  <<SubSeq(s, 1, k - 1)>> \o split(SubSeq(s, k + 1, Len(s)), sep)

\* bytes.decode("ascii") succeeds
is_ascii(b) == \A i \in 1..Len(b) : b[i] < 128

(***************************************************************************)
(* jvccommands.py: headers                                                 *)
(***************************************************************************)
OPR == <<33, 137, 1>>               \* b"!\x89\x01"  operation (set)
REF == <<63, 137, 1>>               \* b"?\x89\x01"  reference (get)
RES == <<64, 137, 1>>               \* b"@\x89\x01"  response
ACKH == <<6, 137, 1>>               \* b"\x06\x89\x01"  projector ack
COM_ACK_LENGTH == 6
RESP_BUFFER == 1024

\* Command.__init__
Command(name, cmd, readwritevals, write_only, read_only, verify_write) ==
    [ name |-> name,
      cmd |-> cmd,
      verify_write |-> verify_write,
      ack |-> ACKH \o slice(cmd, 0, 2) \o NL,
      write_only |-> write_only,
      read_only |-> read_only,
      write_vals |->
          IF Len(readwritevals) = 1
          THEN (IF write_only THEN readwritevals[1]
                ELSE IF read_only THEN <<>>
                ELSE readwritevals[1])
          ELSE IF Len(readwritevals) = 2 THEN readwritevals[1]
          ELSE <<>>,
      read_vals |->
          IF Len(readwritevals) = 1
          THEN (IF write_only THEN <<>>
                ELSE IF read_only THEN readwritevals[1]
                ELSE readwritevals[1])
          ELSE IF Len(readwritevals) = 2 THEN readwritevals[2]
          ELSE <<>> ]

\* Commands.power = Command(b'PW', ...)
power ==
    Command(<<112, 111, 119, 101, 114>>, <<80, 87>>,
        <<(<<111, 110>> :> <<49>> @@ <<111, 102, 102>> :> <<48>>), (<<115, 116, 97, 110, 100, 98, 121>> :> <<48>> @@ <<108, 97, 109, 112, 95, 111, 110>> :> <<49>> @@ <<99, 111, 111, 108, 105, 110, 103>> :> <<50>> @@ <<114, 101, 115, 101, 114, 118, 101, 100>> :> <<51>> @@ <<101, 109, 101, 114, 103, 101, 110, 99, 121>> :> <<52>>)>>,
        FALSE, FALSE, TRUE)

\* Commands.memory = Command(b'INML', ...)
memory ==
    Command(<<109, 101, 109, 111, 114, 121>>, <<73, 78, 77, 76>>,
        <<(<<49>> :> <<48>> @@ <<50>> :> <<49>> @@ <<51>> :> <<50>> @@ <<52>> :> <<51>> @@ <<53>> :> <<52>>)>>,
        TRUE, FALSE, TRUE)

\* Commands.input = Command(b'IP', ...)
input ==
    Command(<<105, 110, 112, 117, 116>>, <<73, 80>>,
        <<(<<104, 100, 109, 105, 49>> :> <<54>> @@ <<104, 100, 109, 105, 50>> :> <<55>>)>>,
        FALSE, FALSE, TRUE)

\* Commands.picture_mode = Command(b'PMPM', ...)
picture_mode ==
    Command(<<112, 105, 99, 116, 117, 114, 101, 95, 109, 111, 100, 101>>, <<80, 77, 80, 77>>,
        <<(<<102, 105, 108, 109>> :> <<48, 48>> @@ <<99, 105, 110, 101, 109, 97>> :> <<48, 49>> @@ <<110, 97, 116, 117, 114, 97, 108>> :> <<48, 51>> @@ <<104, 100, 114, 49, 48>> :> <<48, 52>> @@ <<116, 104, 120>> :> <<48, 54>> @@ <<117, 115, 101, 114, 49>> :> <<48, 67>> @@ <<117, 115, 101, 114, 50>> :> <<48, 68>> @@ <<117, 115, 101, 114, 51>> :> <<48, 69>> @@ <<117, 115, 101, 114, 52>> :> <<48, 70>> @@ <<117, 115, 101, 114, 53>> :> <<49, 48>> @@ <<117, 115, 101, 114, 54>> :> <<49, 49>> @@ <<104, 108, 103>> :> <<49, 52>>)>>,
        FALSE, FALSE, TRUE)

\* Commands.low_latency = Command(b'PMLL', ...)
low_latency ==
    Command(<<108, 111, 119, 95, 108, 97, 116, 101, 110, 99, 121>>, <<80, 77, 76, 76>>,
        <<(<<111, 110>> :> <<49>> @@ <<111, 102, 102>> :> <<48>>)>>,
        FALSE, FALSE, TRUE)

\* Commands.mask = Command(b'ISMA', ...)
mask ==
    Command(<<109, 97, 115, 107>>, <<73, 83, 77, 65>>,
        <<(<<111, 102, 102>> :> <<50>> @@ <<99, 117, 115, 116, 111, 109, 49>> :> <<48>> @@ <<99, 117, 115, 116, 111, 109, 50>> :> <<49>> @@ <<99, 117, 115, 116, 111, 109, 51>> :> <<51>>)>>,
        FALSE, FALSE, TRUE)

\* Commands.lamp = Command(b'PMLP', ...)
lamp ==
    Command(<<108, 97, 109, 112>>, <<80, 77, 76, 80>>,
        <<(<<104, 105, 103, 104>> :> <<49>> @@ <<108, 111, 119>> :> <<48>>)>>,
        FALSE, FALSE, TRUE)

\* Commands.menu = Command(b'RC73', ...)
menu ==
    Command(<<109, 101, 110, 117>>, <<82, 67, 55, 51>>,
        <<(<<109, 101, 110, 117>> :> <<50, 69>> @@ <<100, 111, 119, 110>> :> <<48, 50>> @@ <<108, 101, 102, 116>> :> <<51, 54>> @@ <<114, 105, 103, 104, 116>> :> <<51, 52>> @@ <<117, 112>> :> <<48, 49>> @@ <<111, 107>> :> <<50, 70>> @@ <<98, 97, 99, 107>> :> <<48, 51>>)>>,
        TRUE, FALSE, TRUE)

\* Commands.aperture = Command(b'PMDI', ...)
aperture ==
    Command(<<97, 112, 101, 114, 116, 117, 114, 101>>, <<80, 77, 68, 73>>,
        <<(<<111, 102, 102>> :> <<48>> @@ <<97, 117, 116, 111, 49>> :> <<49>> @@ <<97, 117, 116, 111, 50>> :> <<50>>)>>,
        FALSE, FALSE, TRUE)

\* Commands.anamorphic = Command(b'INVS', ...)
anamorphic ==
    Command(<<97, 110, 97, 109, 111, 114, 112, 104, 105, 99>>, <<73, 78, 86, 83>>,
        <<(<<111, 102, 102>> :> <<48>> @@ <<97>> :> <<49>> @@ <<98>> :> <<50>> @@ <<99>> :> <<51>>)>>,
        FALSE, FALSE, TRUE)

\* Commands.signal = Command(b'SC', ...)
signal ==
    Command(<<115, 105, 103, 110, 97, 108>>, <<83, 67>>,
        <<(<<110, 111, 95, 115, 105, 103, 110, 97, 108>> :> <<48>> @@ <<97, 99, 116, 105, 118, 101, 95, 115, 105, 103, 110, 97, 108>> :> <<49>>)>>,
        FALSE, TRUE, TRUE)

\* Commands.macaddr = Command(b'LSMA', ...)
macaddr ==
    Command(<<109, 97, 99, 97, 100, 100, 114>>, <<76, 83, 77, 65>>,
        <<>>,
        FALSE, TRUE, TRUE)

\* Commands.modelinfo = Command(b'MD', ...)
modelinfo ==
    Command(<<109, 111, 100, 101, 108, 105, 110, 102, 111>>, <<77, 68>>,
        <<>>,
        FALSE, TRUE, TRUE)

\* Commands.nullcmd = Command(b'\x00\x00', ...)
nullcmd ==
    Command(<<110, 117, 108, 108, 99, 109, 100>>, <<0, 0>>,
        <<>>,
        TRUE, FALSE, TRUE)

\* class Commands: the static catalog of command groups
Commands ==
    {power, memory, input, picture_mode,
     low_latency, mask, lamp, menu,
     aperture, anamorphic, signal, macaddr,
     modelinfo, nullcmd}

\* hasattr(Commands, name)
hasattr(name) == \E c \in Commands : c.name = name

\* getattr(Commands, name)
getattr(name) == CHOOSE c \in Commands : c.name = name

(***************************************************************************)
(* Exception classes.  The session names the codec's error for a failed    *)
(* exchange JVCCommandError; the codec raises it as                        *)
(* JVCCommunicationError.                                                  *)
(***************************************************************************)
NoExc == ""
JVCConfigError == "JVCConfigError"
JVCConnectionError == "JVCConnectionError"
JVCHandshakeError == "JVCHandshakeError"
JVCCommandError == "JVCCommandError"
JVCCommunicationError == "JVCCommunicationError"
JVCCommandNotFoundError == "JVCCommandNotFoundError"
OSError == "OSError"
KeyError == "KeyError"
UnicodeDecodeError == "UnicodeDecodeError"
RuntimeError == "RuntimeError"

\* except JVCConnectionError
IsConnectionError(e) == e = JVCConnectionError

\* except JVCCommandError
IsCommandError(e) == e \in {JVCCommandError, JVCCommunicationError}

(***************************************************************************)
(* Return values: a bool, a str or None                                    *)
(***************************************************************************)
RetNone == [kind |-> "None", b |-> FALSE, s |-> <<>>]
RetBool(b) == [kind |-> "bool", b |-> b, s |-> <<>>]
RetStr(s) == [kind |-> "str", b |-> FALSE, s |-> s]

(***************************************************************************)
(* The running call: the session fields, the trace, the pending exception  *)
(* and the return value.                                                   *)
(***************************************************************************)
Ev(ev, arg, data) == [ev |-> ev, arg |-> arg, data |-> data]

emit(s, e) == [s EXCEPT !.log = Append(@, e)]

\* raise e
raise(s, e) == [emit(s, Ev("raise", e, <<>>)) EXCEPT !.exc = e]

\* return v
return(s, v) == [s EXCEPT !.ret = v, !.exc = NoExc]

\* socket.socket(): self.jvc_sock = a new socket
new_socket(s) ==
    [emit(s, Ev("socket", "", <<>>)) EXCEPT
        !.leaked = IF s.jvc_sock # None /\ s.open THEN @ + 1 ELSE @,
        !.jvc_sock = Socket,
        !.open = TRUE,
        !.hs = 0]

\* sock.close() on the socket object the session refers to
sock_close(s) == [emit(s, Ev("close", "", <<>>)) EXCEPT !.open = FALSE]

\* A received message: bytes, or a timeout
Bytes(data) == [st |-> "ok", data |-> data]
Timeout == [st |-> "timeout", data |-> <<>>]
NoR == [st |-> "none", data |-> <<>>]

\* sock.recv(n): "ok" with the bytes read, "timeout" (socket.timeout), or
\* "ebadf" (OSError: the socket object is closed)
recv_outcome(s, r) ==
    IF ~s.open THEN "ebadf" ELSE IF r.st = "ok" THEN "ok" ELSE "timeout"

sock_recv(s, r, n) ==
    emit(s, Ev("recv", recv_outcome(s, r),
               IF recv_outcome(s, r) = "ok" THEN recvn(r.data, n) ELSE <<>>))

\* sock.sendall(data): "ok", "fail" (OSError) or "ebadf" (OSError: closed)
send_outcome(s, ok) ==
    IF ~s.open THEN "ebadf" ELSE IF ok THEN "ok" ELSE "fail"

sock_sendall(s, data, ok) == emit(s, Ev("send", send_outcome(s, ok), data))

\* the last event of the trace
last_ev(s) == s.log[Len(s.log)]

(***************************************************************************)
(* jvc_projector_remote/jvcprojector.py: the session                       *)
(***************************************************************************)
\* the password check with the upper limit off by one
password_error_long(pw) ==
    IF pw # <<>>
    THEN (IF Len(pw) < 8 THEN JVCConfigError
          ELSE IF Len(pw) > 11 THEN JVCConfigError
          ELSE NoExc)
    ELSE NoExc

\* JVCProjector.__init__: the password check
password_error(pw) ==
    IF pw # <<>>
    THEN (IF Len(pw) < 8 THEN JVCConfigError
          ELSE IF Len(pw) > 10 THEN JVCConfigError
          ELSE NoExc)
    ELSE NoExc

\* JVCProjector.__init__: self.max_retries = max_retries if max_retries else 5
default_max_retries(m) == IF m # 0 THEN m ELSE 5

\* self.last_command_time: ten seconds before the construction, or the time
\* send_command stamped after a read
Startup == "startup"
Stamped == "stamped"

\* JVCProjector.__throttle
throttle(s) == emit(s, Ev("throttle", "", <<>>))

\* JVCProjector.__close
close(s) ==
    LET s1 == IF s.jvc_sock # None THEN sock_close(s) ELSE s
    IN  [s1 EXCEPT !.jvc_sock = None, !.open = FALSE, !.hs = 0]

\* the retry test off by one: retry <= self.max_retries
may_retry_once_more(retry) == retry <= max_retries

\* the retry test off by two: retry <= self.max_retries + 1
may_retry_twice_more(retry) == retry <= max_retries + 1

\* retry < self.max_retries
may_retry(retry) == retry < max_retries

\* the outcome of the next connect attempt
next_outcome(outs) == IF outs = <<>> THEN "refused" ELSE Head(outs)
rest(outs) == IF outs = <<>> THEN <<>> ELSE Tail(outs)

\* except socket.timeout in __connect
connect_timeout(s) == raise(sock_close(s), JVCConnectionError)

\* __connect with socket.timeout handled by the except OSError clause: a
\* timeout is retried like a refusal
RECURSIVE connect_retrying_timeouts(_, _, _)
connect_retrying_timeouts(s, retry, outs) ==
    LET o == next_outcome(outs)
        s1 == emit(new_socket(s), Ev("connect", o, <<>>))
    IN  IF o = "ok" THEN s1
        ELSE LET s2 == sock_close(s1)
             IN  IF o = "eisconn" THEN s2
                 ELSE IF may_retry(retry)
                      THEN connect_retrying_timeouts(throttle(s2), retry + 1, rest(outs))
                      ELSE raise(s2, JVCConnectionError)

\* __connect without the close in the except OSError clause: a refused
\* socket is left open when the next attempt creates another one
RECURSIVE connect_leaving_refused(_, _, _)
connect_leaving_refused(s, retry, outs) ==
    LET o == next_outcome(outs)
        s1 == emit(new_socket(s), Ev("connect", o, <<>>))
    IN  IF o = "ok" THEN s1
        ELSE IF o = "timeout" THEN connect_timeout(s1)
        ELSE IF o = "eisconn" THEN s1
        ELSE IF may_retry(retry)
             THEN connect_leaving_refused(throttle(s1), retry + 1, rest(outs))
             ELSE raise(s1, JVCConnectionError)

\* JVCProjector.__connect
RECURSIVE connect(_, _, _)
connect(s, retry, outs) ==
    LET o == next_outcome(outs)
        s1 == emit(new_socket(s), Ev("connect", o, <<>>))
    IN  IF o = "ok" THEN s1
        ELSE IF o = "timeout" THEN connect_timeout(s1)
        ELSE LET s2 == sock_close(s1)
             IN  IF o = "eisconn" THEN s2
                 ELSE IF may_retry(retry)
                      THEN connect(throttle(s2), retry + 1, rest(outs))
                      ELSE raise(s2, JVCConnectionError)

JVC_GRT == <<80, 74, 95, 79, 75>>     \* b"PJ_OK"
JVC_ACK == <<80, 74, 65, 67, 75>>     \* b"PJACK"
PJREQ == <<80, 74, 82, 69, 81>>       \* b"PJREQ"
UNDERSCORE == <<95>>                  \* b"_"

\* handshake: JVC_REQ
JVC_REQ(pw) ==
    IF pw # <<>> THEN ljust(PJREQ \o UNDERSCORE \o pw, 10, NUL) ELSE PJREQ

\* receive PJACK without comparing it: any acknowledgement is accepted
handshake_ack_unchecked(s, h) ==
    LET s1 == sock_recv(s, h.ack, Len(JVC_ACK))
        o == last_ev(s1).arg
    IN  IF o = "timeout" THEN raise(close(s1), JVCConnectionError)
        ELSE IF o = "ebadf" THEN raise(s1, OSError)
        ELSE [s1 EXCEPT !.hs = 3]

\* handshake: receive PJACK
handshake_ack(s, h) ==
    LET s1 == sock_recv(s, h.ack, Len(JVC_ACK))
        o == last_ev(s1).arg
    IN  IF o = "timeout" THEN raise(close(s1), JVCConnectionError)
        ELSE IF o = "ebadf" THEN raise(s1, OSError)
        ELSE IF last_ev(s1).data # JVC_ACK
             THEN raise(close(s1), JVCHandshakeError)
             ELSE [s1 EXCEPT !.hs = 3]

\* a failed send of PJREQ reported as a handshake error
handshake_send_failed_as_mismatch(s) == raise(sock_close(s), JVCHandshakeError)

\* handshake: except OSError when sending PJREQ
handshake_send_failed(s) == raise(sock_close(s), JVCConnectionError)

\* handshake: send PJREQ
handshake_req(s, h) ==
    LET s1 == sock_sendall(s, JVC_REQ(password), h.send)
    IN  IF last_ev(s1).arg # "ok" THEN handshake_send_failed(s1)
        ELSE handshake_ack([s1 EXCEPT !.hs = 2], h)

\* handshake: receive PJ_OK
handshake_grt(s, h) ==
    LET s1 == sock_recv(s, h.greet, Len(JVC_GRT))
        o == last_ev(s1).arg
    IN  IF o = "timeout" THEN raise(close(s1), JVCConnectionError)
        ELSE IF o = "ebadf" THEN raise(s1, OSError)
        ELSE IF last_ev(s1).data # JVC_GRT
             THEN raise(close(s1), JVCHandshakeError)
             ELSE handshake_req([s1 EXCEPT !.hs = 1], h)

\* handshake without the "already connected" return: it always connects
handshake_always(s, h) ==
    LET s1 == connect(s, 0, h.conn)
    IN  IF s1.exc # NoExc THEN s1 ELSE handshake_grt(s1, h)

\* JVCProjector.handshake
handshake(s, h) ==
    IF s.jvc_sock = None
    THEN LET s1 == connect(s, 0, h.conn)
         IN  IF s1.exc # NoExc THEN s1 ELSE handshake_grt(s1, h)
    ELSE s

(***************************************************************************)
(* jvc_projector/jvccommands.py: the codec.  x is the device's side of     *)
(* the exchange: whether the frame can be sent, the acknowledgement and    *)
(* the response.                                                           *)
(***************************************************************************)
\* Command.__send
send(c, s, frame, x) ==
    LET s1 == sock_sendall(s, frame, x.send)
    IN  IF last_ev(s1).arg # "ok"
        THEN raise(sock_close(s1), JVCCommunicationError)
        ELSE s1

\* the acknowledgement check that looks at the header only
ack_ok_header_only(c, ACK) == startswith(ACK, ACKH)

\* Command.__verify_ack: the received ACK is the expected one
ack_ok(c, ACK) == startswith(ACK, ACKH) /\ ACK = c.ack

\* Command.__verify_ack
verify_ack(c, s, x) ==
    LET s1 == sock_recv(s, x.ack, COM_ACK_LENGTH)
    IN  IF last_ev(s1).arg # "ok"
        THEN raise(sock_close(s1), JVCCommunicationError)
        ELSE IF ~ack_ok(c, last_ev(s1).data)
             THEN raise(sock_close(s1), JVCCommunicationError)
             ELSE s1

\* the frame of write() when an empty value gives the value-less frame
\* whatever the table holds
write_frame_valueless(c, value) ==
    IF value \in DOMAIN c.write_vals
    THEN OPR \o c.cmd \o c.write_vals[value] \o NL
    ELSE IF value = <<>> THEN OPR \o c.cmd \o NL ELSE <<>>

\* the frame of write() with the two-byte code of the acknowledgement in
\* place of the operation code
write_frame_code_prefix(c, value) ==
    IF value \in DOMAIN c.write_vals
    THEN OPR \o slice(c.cmd, 0, 2) \o c.write_vals[value] \o NL
    ELSE IF value = <<>> /\ DOMAIN c.write_vals = {}
         THEN OPR \o slice(c.cmd, 0, 2) \o NL
         ELSE <<>>

\* Command.write: the frame, or <<>> when the value has none
write_frame(c, value) ==
    IF value \in DOMAIN c.write_vals
    THEN OPR \o c.cmd \o c.write_vals[value] \o NL
    ELSE IF value = <<>> /\ DOMAIN c.write_vals = {}
         THEN OPR \o c.cmd \o NL
         ELSE <<>>

\* Command.write: after the frame is sent
write_sent(c, s, x) ==
    IF ~c.verify_write THEN sock_close(s)
    ELSE LET s1 == verify_ack(c, s, x)
         IN  IF s1.exc # NoExc THEN s1 ELSE sock_close(s1)

\* Command.write
write(c, s, value, x) ==
    IF c.read_only THEN raise(sock_close(s), JVCCommandNotFoundError)
    ELSE IF write_frame(c, value) = <<>>
         THEN raise(sock_close(s), JVCCommandNotFoundError)
         ELSE LET s1 == send(c, s, write_frame(c, value), x)
              IN  IF s1.exc # NoExc THEN s1 ELSE write_sent(c, s1, x)

\* decoding a response that carries the whole operation code
decode_whole_code(c, s, resp) ==
    IF ~startswith(resp, RES \o c.cmd)
    THEN raise(s, JVCCommunicationError)
    ELSE LET payload == slice_to_last(resp, Len(RES) + Len(c.cmd))
         IN  IF DOMAIN c.read_vals = {}
             THEN (IF is_ascii(payload) THEN return(s, RetStr(payload))
                   ELSE raise(s, UnicodeDecodeError))
             ELSE IF \E k \in DOMAIN c.read_vals : c.read_vals[k] = payload
                  THEN return(s, RetStr(CHOOSE k \in DOMAIN c.read_vals :
                                            c.read_vals[k] = payload))
                  ELSE raise(s, KeyError)

\* Command.read: decode the response
decode(c, s, resp) ==
    IF ~startswith(resp, RES \o slice(c.cmd, 0, 2))
    THEN raise(s, JVCCommunicationError)
    ELSE LET payload == slice_to_last(resp, Len(RES) + 2)
         IN  IF DOMAIN c.read_vals = {}
             THEN (IF is_ascii(payload) THEN return(s, RetStr(payload))
                   ELSE raise(s, UnicodeDecodeError))
             ELSE IF \E k \in DOMAIN c.read_vals : c.read_vals[k] = payload
                  THEN return(s, RetStr(CHOOSE k \in DOMAIN c.read_vals :
                                            c.read_vals[k] = payload))
                  ELSE raise(s, KeyError)

\* Command.read: receive the response
read_resp(c, s, x) ==
    LET s1 == sock_recv(s, x.resp, RESP_BUFFER)
    IN  IF last_ev(s1).arg # "ok"
        THEN raise(sock_close(s1), JVCCommunicationError)
        ELSE decode(c, sock_close(s1), last_ev(s1).data)

\* Command.read
read(c, s, x) ==
    IF c.write_only THEN raise(sock_close(s), JVCCommandNotFoundError)
    ELSE LET s1 == send(c, s, REF \o c.cmd \o NL, x)
         IN  IF s1.exc # NoExc THEN s1
             ELSE LET s2 == verify_ack(c, s1, x)
                  IN  IF s2.exc # NoExc THEN s2 ELSE read_resp(c, s2, x)

(***************************************************************************)
(* jvc_projector_remote/jvcprojector.py: commands                          *)
(***************************************************************************)
\* the try block without the write_only branch: no value means a read
send_command_try_value_only(s, c, write_value, x) ==
    IF write_value # <<>>
    THEN LET s1 == write(c, s, write_value, x)
         IN  IF s1.exc # NoExc THEN s1 ELSE return(s1, RetBool(TRUE))
    ELSE LET s1 == read(c, s, x)
         IN  IF s1.exc # NoExc THEN s1
             ELSE [s1 EXCEPT !.last_command_time = Stamped]

\* send_command: the try block
send_command_try(s, c, write_value, x) ==
    IF write_value # <<>>
    THEN LET s1 == write(c, s, write_value, x)
         IN  IF s1.exc # NoExc THEN s1 ELSE return(s1, RetBool(TRUE))
    ELSE IF c.write_only
         THEN LET s1 == write(c, s, <<>>, x)
              IN  IF s1.exc # NoExc THEN s1 ELSE return(s1, RetBool(TRUE))
         ELSE LET s1 == read(c, s, x)
              IN  IF s1.exc # NoExc THEN s1
                  ELSE [s1 EXCEPT !.last_command_time = Stamped]

\* send_command: the except clauses
send_command_except(s) ==
    IF IsConnectionError(s.exc) THEN raise(close(s), JVCConnectionError)
    ELSE IF IsCommandError(s.exc) THEN raise(s, JVCCommandError)
    ELSE s

\* JVCProjector.send_command
send_command(s, c, write_value, h, x) ==
    LET s1 == IF s.jvc_sock = None THEN handshake(s, h) ELSE s
    IN  IF s1.exc # NoExc THEN s1
        ELSE send_command_except(send_command_try(s1, c, write_value, x))

\* command: except JVCCommandError
command_error(s, ignore_non_crit_error) ==
    IF ignore_non_crit_error THEN return(s, RetBool(FALSE))
    ELSE raise(close(s), JVCCommandError)

\* command: the except clauses, the channel kept in both of them
command_except_keeping_channel(s, ignore_non_crit_error) ==
    IF s.exc = NoExc THEN s
    ELSE IF IsCommandError(s.exc)
         THEN (IF ignore_non_crit_error THEN return(s, RetBool(FALSE))
               ELSE raise(s, JVCCommandError))
    ELSE raise(s, RuntimeError)

\* command: the except clauses
command_except(s, ignore_non_crit_error) ==
    IF s.exc = NoExc THEN s
    ELSE IF IsCommandError(s.exc) THEN command_error(s, ignore_non_crit_error)
    ELSE raise(close(s), RuntimeError)

\* command: the value written, commandspl[1] when there is one
write_value_of(commandspl) ==
    IF Len(commandspl) > 1 THEN commandspl[2] ELSE <<>>

\* JVCProjector.command
command(s, cmd, ignore_non_crit_error, h, x) ==
    LET commandspl == split(cmd, HYPHEN)
    IN  IF ~hasattr(commandspl[1]) THEN return(s, RetBool(FALSE))
        ELSE command_except(
                 send_command(s, getattr(commandspl[1]),
                              write_value_of(commandspl), h, x),
                 ignore_non_crit_error)

\* verify_connection: except JVCConnectionError
verify_except(s) ==
    IF IsConnectionError(s.exc) THEN return(s, RetBool(FALSE)) ELSE s

\* JVCProjector.verify_connection
verify_connection(s, h, x) ==
    LET s1 == handshake(s, h)
    IN  IF s1.exc # NoExc THEN verify_except(s1)
        ELSE LET s2 == command(s1, nullcmd.name, FALSE, h, x)
             IN  IF s2.exc # NoExc THEN verify_except(s2)
                 ELSE return(close(s2), RetBool(TRUE))

\* commands: ret_list.append(v)
append(s, v) ==
    emit(s, Ev("append",
               IF v.kind = "bool" THEN (IF v.b THEN "True" ELSE "False")
                                  ELSE v.kind,
               v.s))

\* commands: one turn of the loop, the body of command() with every return
\* replaced by an append to ret_list
commands_entry(s, cmd, ignore_non_crit_error, h, x) ==
    LET s1 == command(s, cmd, ignore_non_crit_error, h, x)
    IN  IF s1.exc # NoExc THEN s1 ELSE append(s1, s1.ret)

\* commands: the loop from entry i on; xs[i] is the device's side of the
\* exchange of entry i.  The function ends without a return statement.
RECURSIVE commands_from(_, _, _, _, _, _)
commands_from(s, cmds, i, ignore_non_crit_error, h, xs) ==
    IF i > Len(cmds) THEN return(s, RetNone)
    ELSE LET s1 == commands_entry(s, cmds[i], ignore_non_crit_error, h, xs[i])
         IN  IF s1.exc # NoExc THEN s1
             ELSE commands_from(s1, cmds, i + 1, ignore_non_crit_error, h, xs)

\* JVCProjector.commands
commands(s, cmds, ignore_non_crit_error, h, xs) ==
    commands_from(s, cmds, 1, ignore_non_crit_error, h, xs)

(***************************************************************************)
(* The device and the network: what a call may meet                        *)
(***************************************************************************)
RECURSIVE refused(_)
refused(k) == IF k = 0 THEN <<>> ELSE <<"refused">> \o refused(k - 1)

\* connect outcomes: k refusals, then success
ConnOk == {refused(k) \o <<"ok">> : k \in 0..max_retries}

\* connect outcomes: k refusals, then a timeout or "already connected";
\* or one refusal more than there are retries
ConnFail ==
    {refused(k) \o <<f>> : k \in 0..max_retries, f \in {"timeout", "eisconn"}}
        \cup {refused(max_retries + 1)}

PJ_NG == <<80, 74, 95, 78, 71>>       \* b"PJ_NG"
PJNAK == <<80, 74, 78, 65, 75>>       \* b"PJNAK"

BadGreetings ==
    {Bytes(PJ_NG), Bytes(<<>>), Bytes(SubSeq(JVC_GRT, 1, 4)), Bytes(JVC_ACK), Timeout}

Acks == {Bytes(JVC_ACK), Bytes(PJNAK), Bytes(JVC_GRT), Bytes(<<>>), Timeout}

Hs(conn, greet, snd, ack) ==
    [conn |-> conn, greet |-> greet, send |-> snd, ack |-> ack]

NoHs == Hs(<<>>, NoR, FALSE, NoR)

\* the device's side of a handshake
HsScripts ==
    {Hs(c, NoR, FALSE, NoR) : c \in ConnFail}
        \cup {Hs(c, g, FALSE, NoR) : c \in ConnOk, g \in BadGreetings}
        \cup {Hs(c, Bytes(JVC_GRT), FALSE, NoR) : c \in ConnOk}
        \cup {Hs(c, Bytes(JVC_GRT), TRUE, a) : c \in ConnOk, a \in Acks}

\* the handshakes a call started in session state s may meet
HsFor(s) == IF s.jvc_sock = None THEN HsScripts ELSE {NoHs}

X(snd, ack, resp) == [send |-> snd, ack |-> ack, resp |-> resp]

NoX == X(FALSE, NoR, NoR)

BadCmdAcks(c) ==
    {Bytes(<<21, 137, 1>> \o slice(c.cmd, 0, 2) \o NL),
     Bytes(ACKH \o <<88, 88>> \o NL),
     Bytes(ACKH),
     Timeout}

Payloads(c) ==
    IF DOMAIN c.read_vals = {}
    THEN {<<65, 66, 49, 50>>, <<200>>}
    ELSE {c.read_vals[k] : k \in DOMAIN c.read_vals} \cup {<<57>>}

\* responses: the response header, the first two bytes of the operation
\* code, a payload and the terminator; the same with the whole operation
\* code; an acknowledgement in place of the response; nothing
Responses(c) ==
    {Bytes(RES \o slice(c.cmd, 0, 2) \o p \o NL) : p \in Payloads(c)}
        \cup {Bytes(RES \o c.cmd \o p \o NL) : p \in Payloads(c)}
        \cup {Bytes(ACKH \o slice(c.cmd, 0, 2) \o NL), Timeout}

\* the device's side of a command exchange
XScripts(c) ==
    {X(FALSE, NoR, NoR)}
        \cup {X(TRUE, a, NoR) : a \in BadCmdAcks(c)}
        \cup {X(TRUE, Bytes(c.ack), r) : r \in Responses(c) \cup {NoR}}

\* the exchanges command string cmd may meet once the handshake has left
\* the call in s
XFor(s, cmd) ==
    LET commandspl == split(cmd, HYPHEN)
    IN  IF s.exc # NoExc \/ ~s.open \/ ~hasattr(commandspl[1]) THEN {NoX}
        ELSE XScripts(getattr(commandspl[1]))

\* command strings the caller tries
CommandStrings ==
    { <<112, 111, 119, 101, 114>>,                          \* "power"
      <<112, 111, 119, 101, 114, 45, 111, 110>>,            \* "power-on"
      <<112, 111, 119, 101, 114, 45, 117, 112>>,            \* "power-up"
      <<112, 111, 119, 101, 114, 45, 111, 110, 45, 120>>,   \* "power-on-x"
      <<112, 111, 119, 101, 114, 45>>,                      \* "power-"
      <<110, 117, 108, 108, 99, 109, 100>>,                 \* "nullcmd"
      <<109, 97, 99, 97, 100, 100, 114>>,                   \* "macaddr"
      <<109, 101, 109, 111, 114, 121>>,                     \* "memory"
      <<115, 105, 103, 110, 97, 108, 45, 120>>,             \* "signal-x"
      <<98, 111, 103, 117, 115>> }                          \* "bogus"

\* command strings the caller puts in a batch
BatchStrings ==
    { <<112, 111, 119, 101, 114>>,                          \* "power"
      <<110, 117, 108, 108, 99, 109, 100>>,                 \* "nullcmd"
      <<98, 111, 103, 117, 115>> }                          \* "bogus"

\* the batches the caller tries: up to MaxBatch command strings
Batches == UNION {[1..n -> BatchStrings] : n \in 0..MaxBatch}

\* the handshakes a batch started in session state s may meet: the device
\* refuses no connection while a batch runs
BatchHsFor(s) == {h \in HsFor(s) : Len(h.conn) <= 1}

\* n exchanges that never take place
RECURSIVE NoXs(_)
NoXs(n) == IF n = 0 THEN <<>> ELSE <<NoX>> \o NoXs(n - 1)

\* the exchanges the entries of batch cmds, from entry i on, may meet: those
\* of entry i, each followed by those the rest of the batch may meet after it
RECURSIVE BatchXsFor(_, _, _, _, _)
BatchXsFor(s, cmds, i, ignore, h) ==
    IF i > Len(cmds) THEN {<<>>}
    ELSE UNION {
        LET s1 == commands_entry(s, cmds[i], ignore, h, x)
        IN  IF s1.exc # NoExc THEN {<<x>> \o NoXs(Len(cmds) - i)}
            ELSE {<<x>> \o r : r \in BatchXsFor(s1, cmds, i + 1, ignore, h)}
        : x \in XFor(handshake(s, h), cmds[i]) }

\* passwords the caller tries: "", "a", "aa", ...
RECURSIVE chars(_)
chars(n) == IF n = 0 THEN <<>> ELSE <<97>> \o chars(n - 1)

Passwords == {chars(n) : n \in 0..MaxPwLen}

(***************************************************************************)
(* The state machine                                                       *)
(***************************************************************************)
NoCmd == <<>>

Call(op, cmd, ignore, exc, ret) ==
    [op |-> op, cmd |-> cmd, ignore |-> ignore,
     pre |-> [jvc_sock |-> jvc_sock, open |-> sock_open, hs |-> sock_hs],
     exc |-> exc, ret |-> ret]

NoCall ==
    [op |-> "", cmd |-> NoCmd, ignore |-> FALSE,
     pre |-> [jvc_sock |-> None, open |-> FALSE, hs |-> 0],
     exc |-> NoExc, ret |-> RetNone]

\* the session as a call starts
enter ==
    [jvc_sock |-> jvc_sock, open |-> sock_open, hs |-> sock_hs,
     leaked |-> leaked, last_command_time |-> last_command_time,
     log |-> <<>>, exc |-> NoExc, ret |-> RetNone]

\* the session as the call ends
leave(s, op, cmd, ignore) ==
    /\ pc' = "returned"
    /\ jvc_sock' = s.jvc_sock
    /\ sock_open' = s.open
    /\ sock_hs' = s.hs
    /\ leaked' = s.leaked
    /\ log' = s.log
    /\ last_command_time' = s.last_command_time
    /\ last' = Call(op, cmd, ignore, s.exc, s.ret)
    /\ UNCHANGED <<password, max_retries>>

Init ==
    /\ pc = "new"
    /\ password = <<>>
    /\ max_retries = 0
    /\ jvc_sock = None
    /\ sock_open = FALSE
    /\ sock_hs = 0
    /\ leaked = 0
    /\ log = <<>>
    /\ last = NoCall
    /\ last_command_time = Startup

\* JVCProjector(host, password=pw, max_retries=m)
Construct ==
    /\ pc = "new"
    /\ \E pw \in Passwords, m \in 0..MaxRetriesArg :
        /\ password' = pw
        /\ max_retries' = default_max_retries(m)
        /\ pc' = IF password_error(pw) # NoExc THEN "config_error" ELSE "idle"
        /\ last' = Call("init", NoCmd, FALSE, password_error(pw), RetNone)
    /\ UNCHANGED <<jvc_sock, sock_open, sock_hs, leaked, log, last_command_time>>

\* projector.handshake()
Handshake ==
    /\ pc = "idle"
    /\ \E h \in HsFor(enter) :
        leave(handshake(enter, h), "handshake", NoCmd, FALSE)

\* projector.command(cmd, ignore_non_crit_error)
DoCommand ==
    /\ pc = "idle"
    /\ \E cmd \in CommandStrings, ignore \in BOOLEAN :
        \E h \in HsFor(enter) :
            \E x \in XFor(handshake(enter, h), cmd) :
                leave(command(enter, cmd, ignore, h, x), "command", cmd, ignore)

\* projector.verify_connection()
VerifyConnection ==
    /\ pc = "idle"
    /\ \E h \in HsFor(enter) :
        \E x \in XFor(handshake(enter, h), nullcmd.name) :
            leave(verify_connection(enter, h, x), "verify_connection", NoCmd, FALSE)

\* projector.commands(cmds, ignore_non_crit_error)
DoCommands ==
    /\ pc = "idle"
    /\ \E cmds \in Batches, ignore \in BOOLEAN :
        \E h \in BatchHsFor(enter) :
            \E xs \in BatchXsFor(enter, cmds, 1, ignore, h) :
                leave(commands(enter, cmds, ignore, h, xs), "commands", cmds, ignore)

\* the caller takes the result of the call
Return ==
    /\ pc = "returned"
    /\ pc' = "idle"
    /\ log' = <<>>
    /\ last' = NoCall
    /\ UNCHANGED <<password, max_retries, jvc_sock, sock_open, sock_hs, leaked,
                   last_command_time>>

Next ==
    \/ Construct
    \/ Handshake
    \/ DoCommand
    \/ VerifyConnection
    \/ DoCommands
    \/ Return

Spec == Init /\ [][Next]_vars

(***************************************************************************)
(* The codec on its own: Command.write and Command.read of every group of  *)
(* the catalog, each given a connected socket                              *)
(***************************************************************************)
\* a value name no table holds
NoSuchValue == <<122, 122>>            \* "zz"

\* the values write() is called with: every name of the table, none, and a
\* name the table does not hold
WriteArgs(c) == DOMAIN c.write_vals \cup {<<>>, NoSuchValue}

\* "<group>-<value>", "<group>" when there is no value
CommandString(name, value) ==
    IF value = <<>> THEN name ELSE name \o <<HYPHEN>> \o value

InitCodec ==
    /\ pc = "codec"
    /\ password = <<>>
    /\ max_retries = default_max_retries(0)
    /\ jvc_sock = Socket
    /\ sock_open = TRUE
    /\ sock_hs = 3
    /\ leaked = 0
    /\ log = <<>>
    /\ last = NoCall
    /\ last_command_time = Startup

\* Commands.<group>.write(sock, value)
CodecWrite ==
    /\ pc = "codec"
    /\ \E c \in Commands :
        \E value \in WriteArgs(c), x \in XScripts(c) :
            leave(write(c, enter, value, x), "write",
                  CommandString(c.name, value), FALSE)

\* Commands.<group>.read(sock)
CodecRead ==
    /\ pc = "codec"
    /\ \E c \in Commands :
        \E x \in XScripts(c) :
            leave(read(c, enter, x), "read", c.name, FALSE)

\* the caller takes the result and connects a socket for the next call
CodecReturn ==
    /\ pc = "returned"
    /\ pc' = "codec"
    /\ jvc_sock' = Socket
    /\ sock_open' = TRUE
    /\ sock_hs' = 3
    /\ log' = <<>>
    /\ last' = NoCall
    /\ UNCHANGED <<password, max_retries, leaked, last_command_time>>

NextCodec ==
    \/ CodecWrite
    \/ CodecRead
    \/ CodecReturn

SpecCodec == InitCodec /\ [][NextCodec]_vars

(***************************************************************************)
(* Reading the trace of a call                                             *)
(***************************************************************************)
IsFrame(data) == startswith(data, OPR) \/ startswith(data, REF)

\* the events of trace l that are connect attempts, frames put on the
\* socket, received messages
ConnectsOf(l) == {i \in 1..Len(l) : l[i].ev = "connect"}
FrameSendsOf(l) == {i \in 1..Len(l) : l[i].ev = "send" /\ IsFrame(l[i].data)}
IsRecvOk(e) == e.ev = "recv" /\ e.arg = "ok"
IsConnect(e) == e.ev = "connect"
IsRefused(e) == e.ev = "connect" /\ e.arg = "refused"

\* the socket in use at position i of trace l was created at this position
\* (0: before the call)
SocketAt(l, i) ==
    LET made == {k \in 1..i : l[k].ev = "socket"}
    IN  IF made = {} THEN 0 ELSE CHOOSE k \in made : \A j \in made : j <= k

\* positions a < b < c < d after the socket's creation hold the connect, the
\* PJ_OK received, the request sent and the PJACK received
HandshakeIn(l, from, to) ==
    \E a, b, c, d \in from..to :
        /\ a < b /\ b < c /\ c < d
        /\ l[a].ev = "connect" /\ l[a].arg = "ok"
        /\ l[b].ev = "recv" /\ l[b].arg = "ok" /\ l[b].data = JVC_GRT
        /\ l[c].ev = "send" /\ l[c].arg = "ok" /\ startswith(l[c].data, PJREQ)
        /\ l[d].ev = "recv" /\ l[d].arg = "ok" /\ l[d].data = JVC_ACK

\* the connection used at position i of trace l has completed the handshake:
\* in this call, or before it (pre is the session as the call started)
HandshakenAt(l, i, pre) ==
    IF SocketAt(l, i) = 0
    THEN pre.jvc_sock # None /\ pre.open /\ pre.hs = 3
    ELSE HandshakeIn(l, SocketAt(l, i), i)

KnownGroup(cmd) == hasattr(split(cmd, HYPHEN)[1])

(***************************************************************************)
(* C1.  In every reachable state, if the session holds a channel handle    *)
(* (jvc_sock is not None) the channel is open and has completed the        *)
(* PJ_OK / PJREQ / PJACK handshake.                                        *)
(* Fails: __connect closes the socket on a timeout and on exhausted        *)
(* retries, handshake closes it when PJREQ cannot be sent, and the codec   *)
(* closes it after every exchange, all without clearing jvc_sock.          *)
(***************************************************************************)
C1_ChannelReady ==
    jvc_sock # None => (sock_open /\ sock_hs = 3)

(***************************************************************************)
(* C2.  handshake() on a session without a channel succeeds if and only    *)
(* if the device sends exactly PJ_OK and then exactly PJACK; any other     *)
(* bytes received at either step raise JVCHandshakeError and leave the     *)
(* session with no open channel.                                           *)
(***************************************************************************)
HandshakeFromNone ==
    pc = "returned" /\ last.op = "handshake" /\ last.pre.jvc_sock = None

Received == SelectSeq(log, IsRecvOk)

\* C2: handshake() from no channel succeeds iff PJ_OK then PJACK are received;
\* other bytes at either step give JVCHandshakeError and no open channel
C2_HandshakeIff ==
    HandshakeFromNone =>
        /\ last.exc = NoExc <=>
               (/\ Len(Received) = 2
                /\ Received[1].data = JVC_GRT
                /\ Received[2].data = JVC_ACK)
        /\ (\/ (Len(Received) >= 1 /\ Received[1].data # JVC_GRT)
            \/ (Len(Received) >= 2 /\ Received[2].data # JVC_ACK))
               => (/\ last.exc = JVCHandshakeError
                   /\ jvc_sock = None
                   /\ ~sock_open
                   /\ leaked = 0)

\* PJ_OK was received and the acknowledgement was not PJACK
C2_Witness ==
    /\ HandshakeFromNone
    /\ Len(Received) = 2
    /\ Received[2].data = PJNAK
    /\ last.exc = JVCHandshakeError

(***************************************************************************)
(* C3.  Every operation or reference frame the session sends is preceded,  *)
(* on the same connection, by the complete handshake; after a failed       *)
(* connect or a failed handshake the next command of a known group starts  *)
(* with a fresh connect and handshake before it puts a frame on the        *)
(* socket.                                                                 *)
(* Fails: after a connect timeout, exhausted retries or a failed PJREQ     *)
(* send the closed socket stays in jvc_sock, and the next command goes     *)
(* straight to the codec.                                                  *)
(***************************************************************************)
\* a connect or a handshake failed and left its socket in the session
FailedHandshakeLeft == jvc_sock # None /\ ~sock_open /\ sock_hs < 3

C3_Step ==
    (pc = "idle" /\ pc' = "returned" /\ last'.op = "command") =>
        /\ \A i \in FrameSendsOf(log') :
               log'[i].arg = "ok" => HandshakenAt(log', i, last'.pre)
        /\ ((jvc_sock = None \/ FailedHandshakeLeft) /\ KnownGroup(last'.cmd))
               => (/\ Len(log') > 0
                   /\ log'[1].ev = "socket"
                   /\ \A i \in FrameSendsOf(log') :
                          HandshakenAt(log', i, last'.pre))

\* C3: every frame is preceded by the complete handshake on its connection,
\* and a command after a failed connect or handshake reconnects first
C3_HandshakeBeforeFrames == [][C3_Step]_vars

(***************************************************************************)
(* C4.  handshake() on a session that holds a live channel returns at      *)
(* once: no connect, no receive, no send, and the session is unchanged;    *)
(* so the second of two handshake() calls in a row does no network         *)
(* handshake.                                                              *)
(***************************************************************************)
C4_Step ==
    (pc = "idle" /\ jvc_sock # None /\ sock_open
        /\ pc' = "returned" /\ last'.op = "handshake") =>
        /\ log' = <<>>
        /\ last'.exc = NoExc
        /\ jvc_sock' = jvc_sock
        /\ sock_open' = sock_open
        /\ sock_hs' = sock_hs
        /\ leaked' = leaked

\* C4: handshake() on a live channel does no network operation and changes
\* nothing
C4_HandshakeIdempotent == [][C4_Step]_vars

\* a handshake() call that found the channel of an earlier handshake
C4_Witness ==
    /\ pc = "returned"
    /\ last.op = "handshake"
    /\ last.pre.jvc_sock # None /\ last.pre.open /\ last.pre.hs = 3
    /\ log = <<>>
    /\ sock_open /\ sock_hs = 3

(***************************************************************************)
(* C5.  With N connection-refused failures and then a success, connect     *)
(* succeeds at attempt N+1 whenever N <= max_retries (so whenever          *)
(* N+1 <= max_retries); it raises JVCConnectionError once max_retries      *)
(* retries are used up, that is at refusal max_retries + 1; and exactly    *)
(* one throttle step lies between two consecutive connect attempts.        *)
(***************************************************************************)
NRefused == Len(SelectSeq(log, IsRefused))
NConnects == Len(SelectSeq(log, IsConnect))

\* connect attempts i < j with no attempt between them
Consecutive(i, j) ==
    /\ i \in ConnectsOf(log) /\ j \in ConnectsOf(log) /\ i < j
    /\ \A k \in ConnectsOf(log) : ~(i < k /\ k < j)

\* the trace ends connect with "retries exhausted"
Exhausted ==
    \E i \in ConnectsOf(log) :
        /\ \A k \in ConnectsOf(log) : k <= i
        /\ log[i].arg = "refused"

\* C5: retries succeed after N <= max_retries refusals, fail at refusal
\* max_retries + 1, with one throttle step between consecutive attempts
C5_ConnectRetry ==
    /\ \A i, j \in ConnectsOf(log) :
           Consecutive(i, j) =>
               /\ log[i].arg = "refused"
               /\ Cardinality({k \in (i + 1)..(j - 1) : log[k].ev = "throttle"}) = 1
    /\ \A i \in ConnectsOf(log) :
           log[i].arg = "ok" =>
               /\ i + 1 <= Len(log)
               /\ log[i + 1].ev = "recv"
               /\ NRefused <= max_retries
    /\ Exhausted <=> NRefused = max_retries + 1
    /\ Exhausted =>
           \E i \in 1..Len(log) :
               /\ log[i].ev = "raise" /\ log[i].arg = JVCConnectionError
               /\ \A k \in ConnectsOf(log) : k < i
    /\ NConnects <= max_retries + 1

\* two refusals, then connect succeeded at the third attempt
C5_Witness ==
    /\ pc = "returned"
    /\ NRefused = 2
    /\ NConnects = 3
    /\ \E i \in ConnectsOf(log) : log[i].arg = "ok"

\* every retry was refused
C5_WitnessExhausted == pc = "returned" /\ Exhausted

(***************************************************************************)
(* C6.  A connect attempt that times out is never retried: the socket is   *)
(* closed, JVCConnectionError is raised at once and no further attempt     *)
(* follows, whatever the retry count.                                      *)
(***************************************************************************)
C6_TimeoutNotRetried ==
    \A i \in ConnectsOf(log) :
        log[i].arg = "timeout" =>
            /\ i + 2 <= Len(log)
            /\ log[i + 1].ev = "close"
            /\ log[i + 2].ev = "raise" /\ log[i + 2].arg = JVCConnectionError
            /\ \A k \in (i + 1)..Len(log) :
                   log[k].ev \notin {"socket", "connect", "throttle"}

\* a timeout at the second attempt, with retries left
C6_Witness ==
    /\ pc = "returned"
    /\ NRefused = 1
    /\ NConnects = 2
    /\ max_retries >= 2
    /\ \E i \in ConnectsOf(log) : log[i].arg = "timeout"

(***************************************************************************)
(* C7.  For every password of length 8, 9 or 10 the request token sent in  *)
(* the handshake is exactly 16 bytes: PJREQ_ and the password right-padded *)
(* with null bytes to 10 bytes; with no password it is exactly PJREQ.      *)
(* Fails: handshake pads the whole token, not the password, to 10 bytes,   *)
(* so an 8 or 9 character password gives a 14 or 15 byte token.            *)
(***************************************************************************)
ExpectedToken(pw) ==
    IF pw = <<>> THEN PJREQ ELSE PJREQ \o UNDERSCORE \o ljust(pw, 10, NUL)

\* C7: the request token sent is PJREQ, or the 16 bytes PJREQ_ + password
\* padded with null bytes to 10
C7_RequestToken ==
    \A i \in 1..Len(log) :
        (log[i].ev = "send" /\ startswith(log[i].data, PJREQ)) =>
            /\ log[i].data = ExpectedToken(password)
            /\ password # <<>> => Len(log[i].data) = 16

(***************************************************************************)
(* C8.  Constructing a session with a non-empty password shorter than 8    *)
(* or longer than 10 characters fails with JVCConfigError, and no socket   *)
(* is created and no connect attempted.                                    *)
(***************************************************************************)
BadPassword(pw) == pw # <<>> /\ (Len(pw) < 8 \/ Len(pw) > 10)

\* C8: a password of 1..7 or more than 10 characters is refused with
\* JVCConfigError before any socket exists
C8_BadPasswordRejected ==
    (pc # "new" /\ BadPassword(password)) =>
        /\ pc = "config_error"
        /\ last.op = "init"
        /\ last.exc = JVCConfigError
        /\ log = <<>>
        /\ jvc_sock = None
        /\ leaked = 0

\* an 11 character password was refused
C8_Witness ==
    /\ pc = "config_error"
    /\ Len(password) = 11
    /\ last.exc = JVCConfigError

(***************************************************************************)
(* C9.  command() with ignore_non_crit_error true, when the exchange       *)
(* fails with a Command-level error (acknowledgement mismatch, malformed   *)
(* response, unknown read value), returns False and the session channel    *)
(* stays open and handshaken for the next command.                         *)
(* Fails: the codec closes the socket before it raises, and an unknown     *)
(* read value leaves Command.read as a KeyError, which command() wraps in  *)
(* a RuntimeError after closing the channel.                               *)
(***************************************************************************)
\* the device answered and the codec rejected the answer
ExchangeRejected(l) ==
    \E i \in 3..Len(l) :
        /\ l[i].ev = "raise"
        /\ l[i].arg \in {JVCCommunicationError, KeyError}
        /\ l[i - 1].ev = "close"
        /\ l[i - 2].ev = "recv" /\ l[i - 2].arg = "ok"

\* C9: a rejected exchange under ignore_non_crit_error returns False and
\* leaves the channel open and handshaken
C9_IgnoredErrorKeepsChannel ==
    (pc = "returned" /\ last.op = "command" /\ last.ignore /\ ExchangeRejected(log)) =>
        /\ last.exc = NoExc
        /\ last.ret = RetBool(FALSE)
        /\ jvc_sock # None
        /\ sock_open
        /\ sock_hs = 3

(***************************************************************************)
(* C10.  command() with ignore_non_crit_error false, when the exchange     *)
(* fails with a Command-level error, raises JVCCommandError to the caller  *)
(* with the session channel closed and cleared, and the next command does  *)
(* a new connect and handshake.                                            *)
(* Fails for the unknown read value: Command.read raises KeyError there    *)
(* (C18), and the caller gets a RuntimeError.                              *)
(***************************************************************************)
C10_ErrorPropagates ==
    (pc = "returned" /\ last.op = "command" /\ ~last.ignore /\ ExchangeRejected(log)) =>
        /\ last.exc = JVCCommandError
        /\ jvc_sock = None
        /\ ~sock_open
        /\ leaked = 0

(***************************************************************************)
(* C11.  commands() called with n command strings, when no error           *)
(* propagates, returns a sequence of exactly n results, the i-th being     *)
(* the result of the i-th command string: a string for a read, a boolean   *)
(* for a write or a failed entry.                                          *)
(* Fails: commands() collects the results in ret_list and ends without a   *)
(* return statement, so the caller gets None.                              *)
(***************************************************************************)
IsAppend(e) == e.ev = "append"

\* ret_list as the call ends
ret_list == SelectSeq(log, IsAppend)

BatchReturned == pc = "returned" /\ last.op = "commands" /\ last.exc = NoExc

\* the result appended for command string cmd is of the kind its entry gives
ResultBelongs(e, cmd) ==
    LET commandspl == split(cmd, HYPHEN)
    IN  IF ~hasattr(commandspl[1]) THEN e.arg = "False"
        ELSE IF write_value_of(commandspl) # <<>>
                    \/ getattr(commandspl[1]).write_only
             THEN e.arg \in {"True", "False"}
             ELSE e.arg \in {"str", "False"}

\* ret_list holds one result per command string, in order
RetListAligned ==
    BatchReturned =>
        /\ Len(ret_list) = Len(last.cmd)
        /\ \A i \in 1..Len(last.cmd) : ResultBelongs(ret_list[i], last.cmd[i])

\* C11: a batch that raises nothing returns the list of its n results
C11_BatchReturnsResults ==
    BatchReturned => (last.ret.kind = "list" /\ RetListAligned)

(***************************************************************************)
(* C12.  command() called with a command string whose group name is not    *)
(* in the catalog fails with a CommandNotFound error.                      *)
(* Fails: command() logs a warning and returns False for an unknown group; *)
(* nothing is raised.                                                      *)
(***************************************************************************)
CommandReturned == pc = "returned" /\ last.op = "command"

\* C12: command() on a group that is not in the catalog raises
\* JVCCommandNotFoundError
C12_UnknownGroupFails ==
    (CommandReturned /\ ~KnownGroup(last.cmd)) =>
        last.exc = JVCCommandNotFoundError

(***************************************************************************)
(* C13.  command() splits the command string at its first hyphen only:     *)
(* the group name is the text before it and the value all of the text      *)
(* after it, so power-on-x is a write of the value on-x, which the table   *)
(* does not hold (CommandNotFound), and never a write of the value on.     *)
(* Fails: command.split("-") splits at every hyphen and commandspl[1] is   *)
(* the text between the first two, so power-on-x writes on.                *)
(***************************************************************************)
\* the position of the first hyphen of s, 0 when it has none
FirstHyphen(s) ==
    IF \E i \in 1..Len(s) : s[i] = HYPHEN
    THEN CHOOSE i \in 1..Len(s) :
             s[i] = HYPHEN /\ \A j \in 1..(i - 1) : s[j] # HYPHEN
    ELSE 0

\* all of the text after the first hyphen
AfterFirstHyphen(s) ==
    IF FirstHyphen(s) = 0 THEN <<>> ELSE SubSeq(s, FirstHyphen(s) + 1, Len(s))

GroupOf(cmd) == getattr(split(cmd, HYPHEN)[1])

\* operation frames the call put, or tried to put, on the socket
WritesOf(l) == {i \in FrameSendsOf(l) : startswith(l[i].data, OPR)}

\* C13: the value command() writes is all of the text after the first
\* hyphen; when the table does not hold it no frame is sent
C13_SplitAtFirstHyphen ==
    (CommandReturned /\ KnownGroup(last.cmd)) =>
        LET c == GroupOf(last.cmd)
            value == AfterFirstHyphen(last.cmd)
        IN  /\ \A i \in WritesOf(log) : log[i].data = write_frame(c, value)
            /\ (value # <<>> /\ write_frame(c, value) = <<>>)
                   => FrameSendsOf(log) = {}

(***************************************************************************)
(* C14.  For a known group, command() performs a write when the command    *)
(* string carries a value, a value-less write when it carries none and the *)
(* group is write_only, and a read otherwise; a successful write returns   *)
(* True and a successful read returns the decoded string.  The value a     *)
(* command string carries is the one command() takes from it,              *)
(* commandspl[1], and an empty one is no value.                            *)
(***************************************************************************)
ValueOf(cmd) == write_value_of(split(cmd, HYPHEN))

IsWriteCall(cmd) == ValueOf(cmd) # <<>> \/ GroupOf(cmd).write_only

\* the frame of the exchange the command string asks for, <<>> when the
\* codec has none for it
FrameFor(cmd) ==
    LET c == GroupOf(cmd)
    IN  IF IsWriteCall(cmd)
        THEN (IF c.read_only THEN <<>> ELSE write_frame(c, ValueOf(cmd)))
        ELSE REF \o c.cmd \o NL

\* the call got as far as the codec: it started with a socket, or its
\* handshake succeeded
ReachedCodec ==
    \/ last.pre.jvc_sock # None
    \/ \E i \in 2..Len(log) :
           /\ IsRecvOk(log[i]) /\ log[i].data = JVC_ACK
           /\ log[i - 1].ev = "send" /\ log[i - 1].arg = "ok"

Raised(l, e) == \E i \in 1..Len(l) : l[i].ev = "raise" /\ l[i].arg = e

NothingRaised(l) == \A i \in 1..Len(l) : l[i].ev # "raise"

\* the last message received in trace l
LastReceived(l) ==
    LET got == {i \in 1..Len(l) : IsRecvOk(l[i])}
    IN  l[CHOOSE i \in got : \A j \in got : j <= i].data

\* string str is what the codec decodes response resp of group c to
DecodesTo(c, resp, str) ==
    LET payload == slice_to_last(resp, Len(RES) + 2)
    IN  IF DOMAIN c.read_vals = {} THEN str = payload
        ELSE str \in DOMAIN c.read_vals /\ c.read_vals[str] = payload

\* C14: a known group is written when the command string carries a value,
\* written without value when it carries none and the group is write_only,
\* and read otherwise; success returns True for a write and the decoded
\* string for a read
C14_Dispatch ==
    (CommandReturned /\ KnownGroup(last.cmd)) =>
        /\ \A i \in FrameSendsOf(log) : log[i].data = FrameFor(last.cmd)
        /\ (ReachedCodec /\ FrameFor(last.cmd) # <<>>)
               => FrameSendsOf(log) # {}
        /\ (ReachedCodec /\ FrameFor(last.cmd) = <<>>)
               => (FrameSendsOf(log) = {} /\ Raised(log, JVCCommandNotFoundError))
        /\ (ReachedCodec /\ NothingRaised(log)) =>
               /\ last.exc = NoExc
               /\ IF IsWriteCall(last.cmd)
                  THEN last.ret = RetBool(TRUE)
                  ELSE /\ last.ret.kind = "str"
                       /\ DecodesTo(GroupOf(last.cmd), LastReceived(log),
                                    last.ret.s)

\* nullcmd, without value and write_only, was written and returned True
C14_Witness ==
    /\ CommandReturned
    /\ last.cmd = nullcmd.name
    /\ \E i \in FrameSendsOf(log) :
           log[i].arg = "ok" /\ log[i].data = OPR \o nullcmd.cmd \o NL
    /\ last.ret = RetBool(TRUE)

\* power, without value, was read and returned the decoded name
C14_WitnessRead ==
    /\ CommandReturned
    /\ last.cmd = power.name
    /\ \E i \in FrameSendsOf(log) :
           log[i].arg = "ok" /\ log[i].data = REF \o power.cmd \o NL
    /\ last.ret.kind = "str"

(***************************************************************************)
(* C15.  write(group, "") on a group with an empty write-value table       *)
(* sends exactly the operation header, the group code and the terminator;  *)
(* write(group, "") on a write_only group with a non-empty write-value     *)
(* table raises JVCCommandNotFoundError and no byte is sent.  The first    *)
(* half is about the groups write() accepts: a read_only group is refused  *)
(* before the value is looked at.                                          *)
(***************************************************************************)
WriteReturned == pc = "returned" /\ last.op = "write"

SendsOf(l) == {i \in 1..Len(l) : l[i].ev = "send"}

C15_WitnessRefused ==
    /\ WriteReturned
    /\ last.cmd = memory.name
    /\ last.exc = JVCCommandNotFoundError
    /\ SendsOf(log) = {}

(***************************************************************************)
(* C16.  After a write (verify_write set) or a read frame is sent, the     *)
(* exchange is accepted only if the acknowledgement received is exactly    *)
(* the 6 bytes: acknowledgement header, first two bytes of the group code, *)
(* terminator.  Any other received bytes, or a receive timeout, give a     *)
(* Command error (JVCCommunicationError), and a read receives no response  *)
(* after a rejected acknowledgement.                                       *)
(***************************************************************************)
CodecReturned == pc = "returned" /\ last.op \in {"write", "read"}

\* 06 89 01, the first two bytes of the group code, 0A
ExpectedAck(c) == <<6, 137, 1, c.cmd[1], c.cmd[2], 10>>

RecvsOf(l) == {i \in 1..Len(l) : l[i].ev = "recv"}

\* the frame at position i of the trace went out: the acknowledgement is
\* received next, and only the expected one lets the exchange go on
AckDecides(c, i) ==
    /\ i < Len(log)
    /\ log[i + 1].ev = "recv"
    /\ IF IsRecvOk(log[i + 1]) /\ log[i + 1].data = ExpectedAck(c)
       THEN IF last.op = "write"
            THEN last.exc = NoExc /\ RecvsOf(log) = {i + 1}
            ELSE RecvsOf(log) = {i + 1, i + 2}
       ELSE /\ last.exc = JVCCommunicationError
            /\ IsCommandError(last.exc)
            /\ RecvsOf(log) = {i + 1}
            /\ Len(log) = i + 3
            /\ log[i + 2].ev = "close"
            /\ log[i + 3].ev = "raise"

\* C16: once the frame is sent the exchange goes on only after exactly
\* ACKH + code[0:2] + LF; other bytes or a timeout raise the Command error
\* and no response is read
C16_AckExact ==
    (CodecReturned /\ GroupOf(last.cmd).verify_write) =>
        \A i \in FrameSendsOf(log) :
            log[i].arg = "ok" => AckDecides(GroupOf(last.cmd), i)

\* a read of picture_mode was acknowledged with the right header and the
\* wrong code, and was given up without reading a response
C16_Witness ==
    /\ CodecReturned
    /\ last.op = "read"
    /\ last.cmd = picture_mode.name
    /\ \E i \in RecvsOf(log) :
           /\ IsRecvOk(log[i])
           /\ log[i].data = <<6, 137, 1, 88, 88, 10>>
           /\ RecvsOf(log) = {i}
    /\ last.exc = JVCCommunicationError

\* a read of power got 06 89 01 50 57 0A and went on to the response
C16_WitnessAccepted ==
    /\ CodecReturned
    /\ last.op = "read"
    /\ last.cmd = power.name
    /\ \E i \in RecvsOf(log) :
           /\ log[i].data = <<6, 137, 1, 80, 87, 10>>
           /\ RecvsOf(log) = {i, i + 1}

(***************************************************************************)
(* C17.  For every group with a read-value table and every name of it,     *)
(* read() given the response made of the response header, the group's      *)
(* operation code, the binary read value of that name and the terminator   *)
(* returns that name (power with payload 0x31 gives lamp_on); for a group  *)
(* without a read-value table read() returns the payload, with header,     *)
(* code prefix and terminator stripped, decoded as ASCII.                  *)
(* As stated this fails for the groups whose operation code has four       *)
(* bytes: read() expects and strips the first two bytes of the code only.  *)
(* It holds for the response that carries those two bytes.                 *)
(***************************************************************************)
\* a read that received an acknowledgement and then a response
ReadAnswered ==
    /\ pc = "returned"
    /\ last.op = "read"
    /\ \E i \in RecvsOf(log) : RecvsOf(log) = {i, i + 1} /\ IsRecvOk(log[i + 1])

\* the first two bytes of the operation code
CodePrefix(c) == <<c.cmd[1], c.cmd[2]>>

\* the response without its first n bytes and without its last byte
PayloadAfter(resp, n) ==
    IF Len(resp) <= n + 1 THEN <<>> ELSE SubSeq(resp, n + 1, Len(resp) - 1)

\* read() of group c, given the response header, the bytes code, the read
\* value of a name of the table and the terminator, returns that name
DecodesAfter(c, code) ==
    \A k \in DOMAIN c.read_vals :
        LastReceived(log) = <<64, 137, 1>> \o code \o c.read_vals[k] \o <<10>>
            => (last.exc = NoExc /\ last.ret = RetStr(k))

\* read() of a group without read values returns the ASCII payload
RawDecoded(c) ==
    (/\ DOMAIN c.read_vals = {}
     /\ startswith(LastReceived(log), <<64, 137, 1>> \o CodePrefix(c))
     /\ is_ascii(PayloadAfter(LastReceived(log), 5)))
        => (/\ last.exc = NoExc
            /\ last.ret = RetStr(PayloadAfter(LastReceived(log), 5)))

\* the example of the claim: power, 40 89 01 50 57 31 0A, "lamp_on"
PowerExample ==
    (last.cmd = power.name /\ LastReceived(log) = <<64, 137, 1, 80, 87, 49, 10>>)
        => last.ret = RetStr(<<108, 97, 109, 112, 95, 111, 110>>)

\* C17 as stated: the response carries the whole operation code
C17_ReadDecodesWholeCode ==
    ReadAnswered =>
        /\ DecodesAfter(GroupOf(last.cmd), GroupOf(last.cmd).cmd)
        /\ RawDecoded(GroupOf(last.cmd))
        /\ PowerExample

\* C17: read() given response header + first two bytes of the operation
\* code + read value + terminator returns the name of that value; without a
\* read-value table it returns the ASCII payload after those two bytes
C17_ReadDecodes ==
    ReadAnswered =>
        /\ DecodesAfter(GroupOf(last.cmd), CodePrefix(GroupOf(last.cmd)))
        /\ RawDecoded(GroupOf(last.cmd))
        /\ PowerExample

\* picture_mode (code PMPM) was read, the device answered 40 89 01 50 4D 30
\* 31 0A and read() returned "cinema"
C17_Witness ==
    /\ ReadAnswered
    /\ last.cmd = picture_mode.name
    /\ LastReceived(log) = <<64, 137, 1, 80, 77, 48, 49, 10>>
    /\ last.ret = RetStr(<<99, 105, 110, 101, 109, 97>>)

(***************************************************************************)
(* C18.  read() on a group with a read-value table, given a well-formed    *)
(* response whose payload is no binary value of the table, fails with a    *)
(* Command error, the kind an acknowledgement mismatch gives, so that      *)
(* ignore_non_crit_error applies to it: command() returns False when the   *)
(* flag is set and raises JVCCommandError when it is not.                  *)
(* Fails: read() looks the payload up in read_valsinv and the KeyError of  *)
(* the lookup leaves it as it is; command() takes it for an unexpected     *)
(* error, closes the channel and raises RuntimeError whatever the flag.    *)
(***************************************************************************)
\* the response read() received is well formed and its payload is in no
\* entry of the read-value table of group c
UnknownReadValue(c, l) ==
    \E i \in 1..(Len(l) - 2) :
        /\ l[i].ev = "send" /\ l[i].arg = "ok" /\ l[i].data = REF \o c.cmd \o NL
        /\ IsRecvOk(l[i + 1])
        /\ IsRecvOk(l[i + 2])
        /\ startswith(l[i + 2].data, RES \o CodePrefix(c))
        /\ l[i + 2].data[Len(l[i + 2].data)] = 10
        /\ DOMAIN c.read_vals # {}
        /\ \A k \in DOMAIN c.read_vals :
               c.read_vals[k] # PayloadAfter(l[i + 2].data, 5)

\* C18: an unknown read value is a Command error, suppressed or raised as
\* ignore_non_crit_error says
C18_UnknownValueIsCommandError ==
    (CommandReturned /\ KnownGroup(last.cmd)
        /\ UnknownReadValue(GroupOf(last.cmd), log)) =>
        /\ \E e \in {JVCCommandError, JVCCommunicationError} : Raised(log, e)
        /\ IF last.ignore
           THEN last.exc = NoExc /\ last.ret = RetBool(FALSE)
           ELSE last.exc = JVCCommandError

(***************************************************************************)
(* C19.  For every group and every value name of its write-value table,    *)
(* the write frame sent is exactly the operation header 21 89 01, the      *)
(* group code, the binary write value and the terminator 0A, and the       *)
(* acknowledgement expected is 06 89 01, the first two bytes of the group  *)
(* code and 0A; for power-on these are 21 89 01 50 57 31 0A and            *)
(* 06 89 01 50 57 0A.  The frames are also those the Commands enum of      *)
(* jvc_projector/__init__.py spells out byte by byte.                      *)
(***************************************************************************)
\* Commands of jvc_projector/__init__.py: the literal operation frames, by
\* the command string that asks for them
LegacyCommands ==
       (<<112, 111, 119, 101, 114, 45, 111, 110>> :>
           <<33, 137, 1, 80, 87, 49, 10>>)    \* power_on: "power-on"
    @@ (<<112, 111, 119, 101, 114, 45, 111, 102, 102>> :>
           <<33, 137, 1, 80, 87, 48, 10>>)    \* power_off: "power-off"
    @@ (<<109, 101, 109, 111, 114, 121, 45, 49>> :>
           <<33, 137, 1, 73, 78, 77, 76, 48, 10>>)    \* memory1: "memory-1"
    @@ (<<109, 101, 109, 111, 114, 121, 45, 50>> :>
           <<33, 137, 1, 73, 78, 77, 76, 49, 10>>)    \* memory2: "memory-2"
    @@ (<<109, 101, 109, 111, 114, 121, 45, 51>> :>
           <<33, 137, 1, 73, 78, 77, 76, 50, 10>>)    \* memory3: "memory-3"
    @@ (<<109, 101, 109, 111, 114, 121, 45, 52>> :>
           <<33, 137, 1, 73, 78, 77, 76, 51, 10>>)    \* memory4: "memory-4"
    @@ (<<109, 101, 109, 111, 114, 121, 45, 53>> :>
           <<33, 137, 1, 73, 78, 77, 76, 52, 10>>)    \* memory5: "memory-5"
    @@ (<<105, 110, 112, 117, 116, 45, 104, 100, 109, 105, 49>> :>
           <<33, 137, 1, 73, 80, 54, 10>>)    \* hdmi1: "input-hdmi1"
    @@ (<<105, 110, 112, 117, 116, 45, 104, 100, 109, 105, 50>> :>
           <<33, 137, 1, 73, 80, 55, 10>>)    \* hdmi2: "input-hdmi2"
    @@ (<<112, 105, 99, 116, 117, 114, 101, 95, 109, 111, 100, 101, 45, 99, 105, 110, 101, 109, 97>> :>
           <<33, 137, 1, 80, 77, 80, 77, 48, 49, 10>>)    \* pm_cinema: "picture_mode-cinema"
    @@ (<<112, 105, 99, 116, 117, 114, 101, 95, 109, 111, 100, 101, 45, 104, 100, 114, 49, 48>> :>
           <<33, 137, 1, 80, 77, 80, 77, 48, 52, 10>>)    \* pm_hdr: "picture_mode-hdr10"
    @@ (<<112, 105, 99, 116, 117, 114, 101, 95, 109, 111, 100, 101, 45, 110, 97, 116, 117, 114, 97, 108>> :>
           <<33, 137, 1, 80, 77, 80, 77, 48, 51, 10>>)    \* pm_natural: "picture_mode-natural"
    @@ (<<112, 105, 99, 116, 117, 114, 101, 95, 109, 111, 100, 101, 45, 102, 105, 108, 109>> :>
           <<33, 137, 1, 80, 77, 80, 77, 48, 48, 10>>)    \* pm_film: "picture_mode-film"
    @@ (<<112, 105, 99, 116, 117, 114, 101, 95, 109, 111, 100, 101, 45, 116, 104, 120>> :>
           <<33, 137, 1, 80, 77, 80, 77, 48, 54, 10>>)    \* pm_THX: "picture_mode-thx"
    @@ (<<112, 105, 99, 116, 117, 114, 101, 95, 109, 111, 100, 101, 45, 117, 115, 101, 114, 49>> :>
           <<33, 137, 1, 80, 77, 80, 77, 48, 67, 10>>)    \* pm_user1: "picture_mode-user1"
    @@ (<<112, 105, 99, 116, 117, 114, 101, 95, 109, 111, 100, 101, 45, 117, 115, 101, 114, 50>> :>
           <<33, 137, 1, 80, 77, 80, 77, 48, 68, 10>>)    \* pm_user2: "picture_mode-user2"
    @@ (<<112, 105, 99, 116, 117, 114, 101, 95, 109, 111, 100, 101, 45, 117, 115, 101, 114, 51>> :>
           <<33, 137, 1, 80, 77, 80, 77, 48, 69, 10>>)    \* pm_user3: "picture_mode-user3"
    @@ (<<112, 105, 99, 116, 117, 114, 101, 95, 109, 111, 100, 101, 45, 117, 115, 101, 114, 52>> :>
           <<33, 137, 1, 80, 77, 80, 77, 48, 70, 10>>)    \* pm_user4: "picture_mode-user4"
    @@ (<<112, 105, 99, 116, 117, 114, 101, 95, 109, 111, 100, 101, 45, 117, 115, 101, 114, 53>> :>
           <<33, 137, 1, 80, 77, 80, 77, 49, 48, 10>>)    \* pm_user5: "picture_mode-user5"
    @@ (<<112, 105, 99, 116, 117, 114, 101, 95, 109, 111, 100, 101, 45, 117, 115, 101, 114, 54>> :>
           <<33, 137, 1, 80, 77, 80, 77, 49, 49, 10>>)    \* pm_user6: "picture_mode-user6"
    @@ (<<112, 105, 99, 116, 117, 114, 101, 95, 109, 111, 100, 101, 45, 104, 108, 103>> :>
           <<33, 137, 1, 80, 77, 80, 77, 49, 52, 10>>)    \* pm_hlg: "picture_mode-hlg"
    @@ (<<108, 111, 119, 95, 108, 97, 116, 101, 110, 99, 121, 45, 111, 110>> :>
           <<33, 137, 1, 80, 77, 76, 76, 49, 10>>)    \* pm_low_latency_enable: "low_latency-on"
    @@ (<<108, 111, 119, 95, 108, 97, 116, 101, 110, 99, 121, 45, 111, 102, 102>> :>
           <<33, 137, 1, 80, 77, 76, 76, 48, 10>>)    \* pm_low_latency_disable: "low_latency-off"
    @@ (<<109, 97, 115, 107, 45, 111, 102, 102>> :>
           <<33, 137, 1, 73, 83, 77, 65, 50, 10>>)    \* mask_off: "mask-off"
    @@ (<<109, 97, 115, 107, 45, 99, 117, 115, 116, 111, 109, 49>> :>
           <<33, 137, 1, 73, 83, 77, 65, 48, 10>>)    \* mask_custom1: "mask-custom1"
    @@ (<<109, 97, 115, 107, 45, 99, 117, 115, 116, 111, 109, 50>> :>
           <<33, 137, 1, 73, 83, 77, 65, 49, 10>>)    \* mask_custom2: "mask-custom2"
    @@ (<<109, 97, 115, 107, 45, 99, 117, 115, 116, 111, 109, 51>> :>
           <<33, 137, 1, 73, 83, 77, 65, 51, 10>>)    \* mask_custom3: "mask-custom3"
    @@ (<<108, 97, 109, 112, 45, 104, 105, 103, 104>> :>
           <<33, 137, 1, 80, 77, 76, 80, 49, 10>>)    \* lamp_high: "lamp-high"
    @@ (<<108, 97, 109, 112, 45, 108, 111, 119>> :>
           <<33, 137, 1, 80, 77, 76, 80, 48, 10>>)    \* lamp_low: "lamp-low"
    @@ (<<109, 101, 110, 117, 45, 109, 101, 110, 117>> :>
           <<33, 137, 1, 82, 67, 55, 51, 50, 69, 10>>)    \* menu: "menu-menu"
    @@ (<<109, 101, 110, 117, 45, 100, 111, 119, 110>> :>
           <<33, 137, 1, 82, 67, 55, 51, 48, 50, 10>>)    \* menu_down: "menu-down"
    @@ (<<109, 101, 110, 117, 45, 108, 101, 102, 116>> :>
           <<33, 137, 1, 82, 67, 55, 51, 51, 54, 10>>)    \* menu_left: "menu-left"
    @@ (<<109, 101, 110, 117, 45, 114, 105, 103, 104, 116>> :>
           <<33, 137, 1, 82, 67, 55, 51, 51, 52, 10>>)    \* menu_right: "menu-right"
    @@ (<<109, 101, 110, 117, 45, 117, 112>> :>
           <<33, 137, 1, 82, 67, 55, 51, 48, 49, 10>>)    \* menu_up: "menu-up"
    @@ (<<109, 101, 110, 117, 45, 111, 107>> :>
           <<33, 137, 1, 82, 67, 55, 51, 50, 70, 10>>)    \* menu_ok: "menu-ok"
    @@ (<<109, 101, 110, 117, 45, 98, 97, 99, 107>> :>
           <<33, 137, 1, 82, 67, 55, 51, 48, 51, 10>>)    \* menu_back: "menu-back"
    @@ (<<97, 112, 101, 114, 116, 117, 114, 101, 45, 111, 102, 102>> :>
           <<33, 137, 1, 80, 77, 68, 73, 48, 10>>)    \* aperture_off: "aperture-off"
    @@ (<<97, 112, 101, 114, 116, 117, 114, 101, 45, 97, 117, 116, 111, 49>> :>
           <<33, 137, 1, 80, 77, 68, 73, 49, 10>>)    \* aperture_auto1: "aperture-auto1"
    @@ (<<97, 112, 101, 114, 116, 117, 114, 101, 45, 97, 117, 116, 111, 50>> :>
           <<33, 137, 1, 80, 77, 68, 73, 50, 10>>)    \* aperture_auto2: "aperture-auto2"
    @@ (<<97, 110, 97, 109, 111, 114, 112, 104, 105, 99, 45, 111, 102, 102>> :>
           <<33, 137, 1, 73, 78, 86, 83, 48, 10>>)    \* anamorphic_off: "anamorphic-off"
    @@ (<<97, 110, 97, 109, 111, 114, 112, 104, 105, 99, 45, 97>> :>
           <<33, 137, 1, 73, 78, 86, 83, 49, 10>>)    \* anamorphic_a: "anamorphic-a"
    @@ (<<97, 110, 97, 109, 111, 114, 112, 104, 105, 99, 45, 98>> :>
           <<33, 137, 1, 73, 78, 86, 83, 50, 10>>)    \* anamorphic_b: "anamorphic-b"
    @@ (<<97, 110, 97, 109, 111, 114, 112, 104, 105, 99, 45, 99>> :>
           <<33, 137, 1, 73, 78, 86, 83, 51, 10>>)    \* anamorphic_c: "anamorphic-c"

\* ACKs of jvc_projector/__init__.py, by group name
ACKs ==
       (<<112, 111, 119, 101, 114>> :> <<6, 137, 1, 80, 87, 10>>)    \* power_ack
    @@ (<<105, 110, 112, 117, 116>> :> <<6, 137, 1, 73, 80, 10>>)    \* input_ack

\* a write of a value the table of its group holds
TableWrite ==
    /\ WriteReturned
    /\ ValueOf(last.cmd) \in DOMAIN GroupOf(last.cmd).write_vals

\* the acknowledgement received in the call, <<>> when there is none
AckReceived(l) ==
    IF \E i \in RecvsOf(l) : IsRecvOk(l[i]) THEN LastReceived(l) ELSE <<>>

\* C19: write(group, value) sends 21 89 01 + code + write value + 0A, the
\* frame of the legacy table, and succeeds exactly when it receives
\* 06 89 01 + code[0:2] + 0A
C19_WriteFrames ==
    TableWrite =>
        LET c == GroupOf(last.cmd)
            expected == <<33, 137, 1>> \o c.cmd
                            \o c.write_vals[ValueOf(last.cmd)] \o <<10>>
        IN  /\ \E i \in 1..Len(log) :
                   SendsOf(log) = {i} /\ log[i].data = expected
            /\ last.cmd \in DOMAIN LegacyCommands
            /\ expected = LegacyCommands[last.cmd]
            /\ last.exc = NoExc <=>
                   AckReceived(log) = <<6, 137, 1, c.cmd[1], c.cmd[2], 10>>
            /\ c.name \in DOMAIN ACKs =>
                   (last.exc = NoExc <=> AckReceived(log) = ACKs[c.name])
            /\ last.cmd = <<112, 111, 119, 101, 114, 45, 111, 110>> =>
                   /\ expected = <<33, 137, 1, 80, 87, 49, 10>>
                   /\ last.exc = NoExc <=>
                          AckReceived(log) = <<6, 137, 1, 80, 87, 10>>

\* picture_mode-cinema was written with 21 89 01 50 4D 50 4D 30 31 0A and
\* acknowledged with 06 89 01 50 4D 0A
C19_Witness ==
    /\ TableWrite
    /\ last.cmd = CommandString(picture_mode.name, <<99, 105, 110, 101, 109, 97>>)
    /\ \E i \in SendsOf(log) :
           /\ log[i].arg = "ok"
           /\ log[i].data = <<33, 137, 1, 80, 77, 80, 77, 48, 49, 10>>
    /\ AckReceived(log) = <<6, 137, 1, 80, 77, 10>>
    /\ last.exc = NoExc

(***************************************************************************)
(* C20.  Between the completion of one command and the sending of the      *)
(* next command on the same session a throttle step always takes place:    *)
(* no command frame is sent less than the inter-command delay after the    *)
(* previous command, channel reused or not.                                *)
(* Fails: send_command never calls __throttle; the only call of it is the  *)
(* one between two connect attempts, and last_command_time, stamped after  *)
(* a read, is read nowhere.                                                *)
(***************************************************************************)
\* a throttle step comes before position i of trace l
ThrottledBefore(l, i) == \E j \in 1..(i - 1) : l[j].ev = "throttle"

\* a command that follows a completed one (last_command_time is stamped)
\* puts no frame on the socket before a throttle step
C20_Step ==
    (/\ pc = "idle"
     /\ last_command_time = Stamped
     /\ pc' = "returned"
     /\ last'.op \in {"command", "commands", "verify_connection"}) =>
        \A i \in FrameSendsOf(log') :
            log'[i].arg = "ok" => ThrottledBefore(log', i)

\* C20: after a completed command the next command frame is sent only after
\* a throttle step
C20_ThrottleBetweenCommands == [][C20_Step]_vars

(***************************************************************************)
(* C21.  In handshake(), a receive timeout while waiting for PJ_OK or for  *)
(* PJACK, and a failure to send PJREQ, each give JVCConnectionError and    *)
(* never JVCHandshakeError; JVCHandshakeError is raised only when a        *)
(* receive returned bytes that differ from the expected token.             *)
(***************************************************************************)
\* a receive of the call timed out
RecvTimedOut(l) == \E i \in 1..Len(l) : l[i].ev = "recv" /\ l[i].arg = "timeout"

\* the request token could not be sent
RequestSendFailed(l) ==
    \E i \in 1..Len(l) :
        l[i].ev = "send" /\ l[i].arg = "fail" /\ startswith(l[i].data, PJREQ)

\* the last receive of the call returned bytes that are not the token
\* expected at that step: PJ_OK at the first receive, PJACK at the second
LastReceiveMismatch ==
    \/ Len(Received) = 1 /\ Received[1].data # JVC_GRT
    \/ Len(Received) = 2 /\ Received[2].data # JVC_ACK

\* C21: handshake timeouts and a failed send of PJREQ raise
\* JVCConnectionError; JVCHandshakeError needs received bytes that differ
\* from the expected token
C21_HandshakeErrorKinds ==
    HandshakeFromNone =>
        /\ (RecvTimedOut(log) \/ RequestSendFailed(log))
               => last.exc = JVCConnectionError
        /\ last.exc = JVCHandshakeError
               => (/\ LastReceiveMismatch
                   /\ ~RecvTimedOut(log)
                   /\ ~RequestSendFailed(log))

\* PJ_OK was received and PJREQ could not be sent
C21_Witness ==
    /\ HandshakeFromNone
    /\ Len(Received) = 1
    /\ Received[1].data = JVC_GRT
    /\ RequestSendFailed(log)
    /\ last.exc = JVCConnectionError

\* the wait for PJACK timed out
C21_WitnessAckTimeout ==
    /\ HandshakeFromNone
    /\ Len(Received) = 1
    /\ RecvTimedOut(log)
    /\ last.exc = JVCConnectionError

(***************************************************************************)
(* C22.  When command() has to establish the channel and that fails, the   *)
(* caller of command() gets an error of the kind the handshake raised:     *)
(* JVCHandshakeError for a greeting or acknowledgement mismatch,           *)
(* JVCConnectionError for a timeout or exhausted retries; they are not     *)
(* converted into an unexpected error.                                     *)
(* Fails: send_command calls handshake() inside the try block of           *)
(* command(), whose `except Exception` clause closes the channel and       *)
(* raises RuntimeError for everything that is no JVCCommandError.          *)
(***************************************************************************)
\* the kind of the first error raised in trace l, NoExc when there is none
FirstRaised(l) ==
    LET at == {i \in 1..Len(l) : l[i].ev = "raise"}
    IN  IF at = {} THEN NoExc
        ELSE l[CHOOSE i \in at : \A j \in at : i <= j].arg

\* C22: a handshake or connection error met while command() establishes the
\* channel reaches the caller as it is
C22_ChannelErrorsSurface ==
    (/\ CommandReturned
     /\ last.pre.jvc_sock = None
     /\ FirstRaised(log) \in {JVCHandshakeError, JVCConnectionError}) =>
        last.exc = FirstRaised(log)


(***************************************************************************)
(* C23.  Only the session closes the channel: no write() or read() of the  *)
(* codec closes the socket it was given, on success or on failure, so the  *)
(* channel is still open after a successful command and serves the next.   *)
(* Fails: Command.write and Command.read call sock.close() on every path,  *)
(* the successful ones included.                                           *)
(***************************************************************************)
\* trace l holds a close of the socket
Closed(l) == \E i \in 1..Len(l) : l[i].ev = "close"

\* C23: a call of the codec's write() or read() does not close the socket it
\* was given and leaves it open
C23_CodecKeepsChannelOpen ==
    CodecReturned => (~Closed(log) /\ sock_open)


(***************************************************************************)
(* C24.  Whenever command() or commands() ends with an error, the session  *)
(* has closed its socket and cleared its handle before the error reaches   *)
(* the caller, so the next command connects and handshakes again.  (A      *)
(* suppressed Command error and an unknown group end without an error in   *)
(* this session and are not concerned.)                                    *)
(***************************************************************************)
\* command() or commands() has ended with an error
CommandFailed ==
    /\ pc = "returned"
    /\ last.op \in {"command", "commands"}
    /\ last.exc # NoExc

\* every byte sent or received in trace l comes after a connect of the call
ConnectsFirst(l) ==
    \A i \in 1..Len(l) :
        l[i].ev \in {"send", "recv"} =>
            \E j \in 1..(i - 1) : l[j].ev = "connect"

\* C24: an error of command() or commands() leaves the session without a
\* channel, the socket closed; a command started without a channel connects
\* before it sends or receives anything
C24_ErrorClosesChannel ==
    /\ CommandFailed => (jvc_sock = None /\ ~sock_open /\ leaked = 0)
    /\ (/\ pc = "returned"
        /\ last.op \in {"command", "commands"}
        /\ last.pre.jvc_sock = None) => ConnectsFirst(log)

\* command() establishes the channel, fails with a Command error, closes the
\* channel and clears it
C24_Witness ==
    /\ CommandFailed
    /\ last.op = "command"
    /\ last.pre.jvc_sock = None
    /\ last.exc = JVCCommandError
    /\ Closed(log)
    /\ jvc_sock = None

\* commands() fails in its second entry
C24_WitnessBatch ==
    /\ CommandFailed
    /\ last.op = "commands"
    /\ \E i \in 1..Len(log) : IsAppend(log[i])
    /\ jvc_sock = None


(***************************************************************************)
(* C25.  __connect always terminates: whatever the outcomes of the connect *)
(* attempts (refused, timeout, already connected, success), it makes at    *)
(* most max_retries + 1 attempts and then returns or raises                *)
(* JVCConnectionError.                                                     *)
(***************************************************************************)
\* the last connect attempt of the call
LastConnect ==
    CHOOSE i \in ConnectsOf(log) : \A j \in ConnectsOf(log) : j <= i

\* event i of the trace is of kind ev
EvAt(i, ev) == i <= Len(log) /\ log[i].ev = ev

\* __connect has returned after the last attempt: the handshake goes on with
\* its first receive
ConnectReturned ==
    \/ log[LastConnect].arg = "ok" /\ EvAt(LastConnect + 1, "recv")
    \/ /\ log[LastConnect].arg = "eisconn"
       /\ EvAt(LastConnect + 1, "close")
       /\ EvAt(LastConnect + 2, "recv")

\* __connect has raised JVCConnectionError after the last attempt
ConnectRaised ==
    /\ log[LastConnect].arg \in {"timeout", "refused"}
    /\ EvAt(LastConnect + 1, "close")
    /\ EvAt(LastConnect + 2, "raise")
    /\ log[LastConnect + 2].arg = JVCConnectionError

\* C25: a call that connects makes at most max_retries + 1 attempts, all but
\* the last refused, and after the last one __connect returns or raises
\* JVCConnectionError
C25_ConnectTerminates ==
    (pc = "returned" /\ ConnectsOf(log) # {}) =>
        /\ NConnects <= max_retries + 1
        /\ \A i \in ConnectsOf(log) : i # LastConnect => log[i].arg = "refused"
        /\ ConnectReturned \/ ConnectRaised
        /\ (log[LastConnect].arg = "refused") => NConnects = max_retries + 1

\* one refusal, then "already connected": __connect returns at the second
\* attempt
C25_Witness ==
    /\ pc = "returned"
    /\ NConnects = 2
    /\ log[LastConnect].arg = "eisconn"
    /\ ConnectReturned

\* the last of max_retries + 1 attempts times out
C25_WitnessTimeout ==
    /\ pc = "returned"
    /\ NConnects = max_retries + 1
    /\ NConnects > 1
    /\ log[LastConnect].arg = "timeout"
    /\ ConnectRaised


(***************************************************************************)
(* C26.  When a connect attempt fails with the OS error "already           *)
(* connected", __connect returns as on success, without retrying, and the  *)
(* socket the session holds after that return is open and usable for the   *)
(* handshake's receive that follows.                                       *)
(* Fails: the except OSError clause calls jvc_sock.close() before it tests *)
(* the errno, so __connect returns with a closed socket and the receive    *)
(* of the greeting fails on it.                                            *)
(***************************************************************************)
\* a connect attempt of the call ended with EISCONN
AlreadyConnected ==
    /\ pc = "returned"
    /\ \E i \in ConnectsOf(log) : log[i].arg = "eisconn"

\* C26: after an "already connected" attempt no further attempt is made, the
\* socket is not closed and the greeting is received on it
C26_AlreadyConnectedUsable ==
    AlreadyConnected =>
        /\ log[LastConnect].arg = "eisconn"
        /\ EvAt(LastConnect + 1, "recv")
        /\ log[LastConnect + 1].arg # "ebadf"


(***************************************************************************)
(* C27.  verify_connection() leaves the session with no channel handle     *)
(* whether it returns True or False, so that the first command() after it  *)
(* connects and handshakes afresh; in particular after a connect timeout   *)
(* or exhausted retries made it return False.                              *)
(* Fails: the `except JVCConnectionError` clause returns False without     *)
(* calling __close(), and __connect leaves the closed socket in jvc_sock   *)
(* when it raises.                                                         *)
(***************************************************************************)
\* verify_connection() has returned True or False
VerifyReturned ==
    pc = "returned" /\ last.op = "verify_connection" /\ last.exc = NoExc

\* C27: after verify_connection() has returned the session holds no socket
C27_VerifyLeavesNoChannel ==
    VerifyReturned => (jvc_sock = None /\ ~sock_open)


(***************************************************************************)
(* C28.  A session has at most one open socket in every reachable state:   *)
(* every socket a connect attempt creates is closed before the next        *)
(* attempt creates another one and before any error propagates, so no      *)
(* sequence of failed connects, handshakes and commands leaves an open     *)
(* socket the session no longer refers to.                                 *)
(***************************************************************************)
\* the socket created at position i of the trace replaces none that is open:
\* the socket before it, if the call made one, was closed
ReplacesClosed(i) ==
    (\E k \in 1..(i - 1) : log[k].ev = "socket") =>
        \E k \in 1..(i - 1) :
            /\ log[k].ev = "close"
            /\ \A j \in (k + 1)..(i - 1) : log[j].ev # "socket"

BatchEnded == pc = "returned" /\ last.op = "commands"

\* event i of the trace is the raise of a Command error
CommandErrorAt(i) == log[i].ev = "raise" /\ IsCommandError(log[i].arg)

\* the entry of the batch at work at position i of the trace
EntryAt(i) == Cardinality({k \in 1..(i - 1) : IsAppend(log[k])}) + 1

\* the frame of command string cmd goes out on the socket after position i
SentAfter(i, cmd) ==
    \E k \in (i + 1)..Len(log) :
        /\ log[k].ev = "send"
        /\ log[k].arg = "ok"
        /\ log[k].data = FrameFor(cmd)

\* C29: with ignore_non_crit_error true every entry of a known group after
\* one that met a Command error is sent; with ignore_non_crit_error false
\* nothing is sent after the Command error and the channel is closed and
\* cleared
C29_BatchContinues ==
    BatchEnded =>
        \A i \in 1..Len(log) :
            CommandErrorAt(i) =>
                IF last.ignore
                THEN \A m \in (EntryAt(i) + 1)..Len(last.cmd) :
                         KnownGroup(last.cmd[m]) => SentAfter(i, last.cmd[m])
                ELSE /\ \A k \in (i + 1)..Len(log) : log[k].ev # "send"
                     /\ last.exc = JVCCommandError
                     /\ jvc_sock = None
                     /\ ~sock_open
=============================================================================
